---- MODULE Spec2Model ----
(***************************************************************************)
(* Model of src/src/contexts/AuthContext.tsx: the AuthProvider component,  *)
(* its token helpers (saveToken / getToken / removeToken over              *)
(* localStorage['authToken']), the mount effect with fetchUserFromToken,   *)
(* and the login / register / logout operations it provides.               *)
(*                                                                         *)
(* JavaScript runs one task at a time: each action below is one run of     *)
(* synchronous code, from an entry point or the resumption of an `await`   *)
(* to the next `await`, `return` or `throw`.  A provider re-renders after  *)
(* setUser, so the provided context value is recomputed in the same step.  *)
(* The server and the network are the environment: what a request settles  *)
(* with is chosen nondeterministically.                                    *)
(***************************************************************************)
EXTENDS Integers, Sequences, FiniteSets, TLC

\* ---------------------------------------------------------------- bounds
\* login/register invocations in one provider lifetime
MaxCalls == 2

\* ---------------------------------------------------------------- values
\* JavaScript null and undefined
Null == "NULL"
Undefined == "UNDEFINED"

\* bearer tokens the server hands out, and the principals (User records)
Tokens == {"t1", "t2"}
Users == {"u1", "u2"}

\* the server's session table: the principal a token identifies
Owner(t) == IF t = "t1" THEN "u1" ELSE "u2"

\* server-supplied failure messages ("" is a present but empty message)
Messages == {"Invalid credentials", ""}

\* JavaScript truthiness of the values that occur here (if (token), !!user,
\* errorData.message || '...')
Truthy(v) == v \notin {Null, Undefined, ""}

\* String(v) as localStorage.setItem applies it to its value argument
JsString(v) == IF v = Undefined THEN "undefined" ELSE v

\* what localStorage['authToken'] can hold: getItem gives null when absent
StoredTokens == Tokens \cup {"undefined"}

VARIABLES
  token,        \* localStorage['authToken'], Null when the key is absent
  user,         \* the useState<User | null> cell of AuthProvider
  context,      \* the value AuthProvider provides: [user, isAuthenticated]
  initialized,  \* whether the mount effect has run
  calls,        \* the async calls made so far, in order of invocation
  last,         \* observation: the step taken last, with the state before it
  raced         \* observation: the calls, in flight or completed by the last
                \* step, that were in flight when logout() ran

vars == <<token, user, context, initialized, calls, last, raced>>

\* ------------------------------------------------------ response bodies
\* What `await response.json()` gives: it rejects (parse = "error"), or it
\* resolves to JSON null (any property read then throws a TypeError), or to
\* an object whose absent fields read as undefined.
Body(p, t, u, m) == [parse |-> p, token |-> t, user |-> u, message |-> m]
UnparsableBody == Body("error", Undefined, Undefined, Undefined)
JsonNullBody == Body("null", Undefined, Undefined, Undefined)
EmptyObject == Body("object", Undefined, Undefined, Undefined)
NoBody == Body("none", Undefined, Undefined, Undefined)
MalformedBodies == {UnparsableBody, JsonNullBody, EmptyObject}

\* The bodies the server may send to call c once its status is known:
\* {token, user} or {user} with a success status, {message} (optional)
\* otherwise, or anything malformed.
ServerBodies(c) ==
  MalformedBodies \cup
  IF ~c.ok THEN {Body("object", Undefined, Undefined, m) : m \in Messages}
  ELSE IF c.kind = "me"
       THEN {Body("object", Undefined, Owner(c.tok), Undefined) : x \in {c.tok} \cap Tokens}
       ELSE {Body("object", t, Owner(t), Undefined) : t \in Tokens}

\* how a fetch settles: it rejects (network error), or resolves with a
\* response whose ok flag is set or not
Settles == {"reject", "ok", "notok"}

\* ------------------------------------------------------- token helpers
saveToken(t) == JsString(t)
getToken == token
removeToken == Null

\* faulty variant: isAuthenticated derived from the stored token instead of user
AuthProvider_fromToken(u) == [user |-> u, isAuthenticated |-> Truthy(token)]

\* the value prop of AuthContext.Provider, computed at each render
AuthProvider(u) == [user |-> u, isAuthenticated |-> Truthy(u)]

\* the outcome of one run of synchronous code of a call: the token store and
\* the user cell after it, where the call stands, and what its promise did
Step(t, u, pc, result, error) ==
  [token |-> t, user |-> u, pc |-> pc, result |-> result, error |-> error]

NoError == "none"

\* ---------------------------------------------------- fetchUserFromToken
\* after `await fetch('/api/auth/me')`: a rejection lands in the catch, a
\* response that is not ok clears the session and returns, an ok response
\* goes on to `await response.json()`
fetchUserFromToken_response(settle, t, u) ==
  IF settle = "reject" THEN Step(removeToken, Null, "done", "resolved", NoError)
  ELSE IF settle = "notok" THEN Step(removeToken, Null, "done", "resolved", NoError)
  ELSE Step(t, u, "json", "pending", NoError)

\* faulty variant: the success branch also re-saves a token taken from the body
fetchUserFromToken_body_resaves(body, t, u) ==
  IF body.parse = "error" THEN Step(removeToken, Null, "done", "resolved", NoError)
  ELSE IF body.parse = "null" THEN Step(removeToken, Null, "done", "resolved", NoError)
  ELSE Step(saveToken(body.token), body.user, "done", "resolved", NoError)

\* faulty variant: no try/catch around response.json(), the failure escapes
fetchUserFromToken_body_noCatch(body, t, u) ==
  IF body.parse \in {"error", "null"} THEN Step(t, u, "done", "rejected", "SyntaxError")
  ELSE Step(t, body.user, "done", "resolved", NoError)

\* after `await response.json()`: a rejection, or the TypeError of reading
\* .user of null, lands in the catch; otherwise setUser(data.user)
fetchUserFromToken_body(body, t, u) ==
  IF body.parse = "error" THEN Step(removeToken, Null, "done", "resolved", NoError)
  ELSE IF body.parse = "null" THEN Step(removeToken, Null, "done", "resolved", NoError)
  ELSE Step(t, body.user, "done", "resolved", NoError)

\* ----------------------------------------------------------------- login
\* faulty variant: a rejected fetch is sent again
login_response_retries(settle, t, u) ==
  IF settle = "reject" THEN Step(t, u, "fetch", "pending", NoError)
  ELSE Step(t, u, "json", "pending", NoError)

\* after `await fetch('/api/auth/login')`: a rejection rejects the call,
\* any response goes on to `await response.json()` (on either branch)
login_response(settle, t, u) ==
  IF settle = "reject" THEN Step(t, u, "done", "rejected", "NetworkError")
  ELSE Step(t, u, "json", "pending", NoError)

\* faulty variant: the success branch forgets saveToken
login_body_noSave(ok, body, t, u) ==
  IF body.parse = "error" THEN Step(t, u, "done", "rejected", "SyntaxError")
  ELSE IF body.parse = "null" THEN Step(t, u, "done", "rejected", "TypeError")
  ELSE IF ~ok
       THEN Step(t, u, "done", "rejected",
                 IF Truthy(body.message) THEN body.message ELSE "Login failed")
       ELSE Step(t, body.user, "done", "resolved", NoError)

\* faulty variant: a body that fails to parse is reported as "Login failed"
login_body_defaultOnParseError(ok, body, t, u) ==
  IF body.parse \in {"error", "null"} THEN Step(t, u, "done", "rejected", "Login failed")
  ELSE IF ~ok
       THEN Step(t, u, "done", "rejected",
                 IF Truthy(body.message) THEN body.message ELSE "Login failed")
       ELSE Step(saveToken(body.token), body.user, "done", "resolved", NoError)

\* after `await response.json()`, on the !response.ok branch (throw) or on
\* the success branch (saveToken, setUser)
login_body(ok, body, t, u) ==
  IF body.parse = "error" THEN Step(t, u, "done", "rejected", "SyntaxError")
  ELSE IF body.parse = "null" THEN Step(t, u, "done", "rejected", "TypeError")
  ELSE IF ~ok
       THEN Step(t, u, "done", "rejected",
                 IF Truthy(body.message) THEN body.message ELSE "Login failed")
       ELSE Step(saveToken(body.token), body.user, "done", "resolved", NoError)

\* -------------------------------------------------------------- register
register_response(settle, t, u) ==
  IF settle = "reject" THEN Step(t, u, "done", "rejected", "NetworkError")
  ELSE Step(t, u, "json", "pending", NoError)

register_body(ok, body, t, u) ==
  IF body.parse = "error" THEN Step(t, u, "done", "rejected", "SyntaxError")
  ELSE IF body.parse = "null" THEN Step(t, u, "done", "rejected", "TypeError")
  ELSE IF ~ok
       THEN Step(t, u, "done", "rejected",
                 IF Truthy(body.message) THEN body.message ELSE "Registration failed")
       ELSE Step(saveToken(body.token), body.user, "done", "resolved", NoError)

\* ---------------------------------------------------------------- logout
\* faulty variant: logout forgets removeToken
logout_effect_keepsToken(t, u) == Step(t, Null, "done", "resolved", NoError)

logout_effect(t, u) == Step(removeToken, Null, "done", "resolved", NoError)

\* ------------------------------------------------------------ the calls
\* a call in flight: its endpoint, where its code stands ("fetch": awaiting
\* fetch, "json": awaiting response.json(), "done"), response.ok once the
\* fetch resolved, the bearer token it sent (me only), its promise
Call(kind, tok) ==
  [kind |-> kind, pc |-> "fetch", ok |-> FALSE, tok |-> tok, result |-> "pending"]

Ids == 1 .. Len(calls)
UserCalls == {i \in Ids : calls[i].kind \in {"login", "register"}}

\* raced after a step that is not logout: calls completed earlier drop out
StillRaced == {j \in raced : calls[j].pc # "done"}

Observe(op, id, net, body, s) ==
  [op |-> op, id |-> id, token |-> token, user |-> user, net |-> net,
   body |-> body, result |-> s.result, error |-> s.error]

\* apply the outcome s of a run of call i's code
Apply(i, s, ok) ==
  /\ token' = s.token
  /\ user' = s.user
  /\ context' = AuthProvider(s.user)
  /\ calls' = [calls EXCEPT ![i].pc = s.pc, ![i].ok = ok, ![i].result = s.result]
  /\ raced' = StillRaced
  /\ UNCHANGED initialized

Init ==
  /\ token \in StoredTokens \cup {Null}
  /\ user = Null
  /\ context = AuthProvider(Null)
  /\ initialized = FALSE
  /\ calls = << >>
  /\ raced = {}
  /\ last = [op |-> "render", id |-> 0, token |-> token, user |-> Null, net |-> "none",
             body |-> NoBody, result |-> "none", error |-> NoError]

\* faulty variant: the effect lacks `if (token)` and always asks the server
useEffect_unconditional ==
  /\ ~initialized
  /\ initialized' = TRUE
  /\ calls' = Append(calls, Call("me", getToken))
  /\ last' = Observe("useEffect", 0, "none", NoBody, Step(token, user, "fetch", "none", NoError))
  /\ raced' = StillRaced
  /\ UNCHANGED <<token, user, context>>

\* the mount effect: read the token, and if there is one start restoring
useEffect ==
  /\ ~initialized
  /\ initialized' = TRUE
  /\ calls' = IF Truthy(getToken) THEN Append(calls, Call("me", getToken)) ELSE calls
  /\ last' = Observe("useEffect", 0, "none", NoBody, Step(token, user, "fetch", "none", NoError))
  /\ raced' = StillRaced
  /\ UNCHANGED <<token, user, context>>

\* fetchUserFromToken resumes after its fetch
fetchUserFromToken_fetched(i) ==
  /\ initialized /\ calls[i].kind = "me" /\ calls[i].pc = "fetch"
  /\ \E settle \in Settles :
       LET s == fetchUserFromToken_response(settle, token, user) IN
       /\ Apply(i, s, settle = "ok")
       /\ last' = Observe("me_response", i, settle, NoBody, s)

\* faulty variant: the result is dropped when the stored token is no longer
\* the one the request was sent with
fetchUserFromToken_parsed_checksToken(i) ==
  /\ calls[i].kind = "me" /\ calls[i].pc = "json"
  /\ \E body \in ServerBodies(calls[i]) :
       LET s == IF token = calls[i].tok
                THEN fetchUserFromToken_body(body, token, user)
                ELSE Step(token, user, "done", "resolved", NoError) IN
       /\ Apply(i, s, calls[i].ok)
       /\ last' = Observe("me_body", i, "ok", body, s)

\* fetchUserFromToken resumes after response.json()
fetchUserFromToken_parsed(i) ==
  /\ calls[i].kind = "me" /\ calls[i].pc = "json"
  /\ \E body \in ServerBodies(calls[i]) :
       LET s == fetchUserFromToken_body(body, token, user) IN
       /\ Apply(i, s, calls[i].ok)
       /\ last' = Observe("me_body", i, "ok", body, s)

\* login(email, password) is invoked: the request goes out
login ==
  /\ Cardinality(UserCalls) < MaxCalls
  /\ calls' = Append(calls, Call("login", Null))
  /\ last' = Observe("login", Len(calls) + 1, "none", NoBody,
                      Step(token, user, "fetch", "pending", NoError))
  /\ raced' = StillRaced
  /\ UNCHANGED <<token, user, context, initialized>>

\* login resumes after its fetch.  A child's effect may call login before
\* the provider's own mount effect runs (effects run children first, in one
\* flush), but no response is handled before that flush is over.
login_fetched(i) ==
  /\ initialized /\ calls[i].kind = "login" /\ calls[i].pc = "fetch"
  /\ \E settle \in Settles :
       LET s == login_response(settle, token, user) IN
       /\ Apply(i, s, settle = "ok")
       /\ last' = Observe("login_response", i, settle, NoBody, s)

\* faulty variant: a response is dropped when logout() ran while the call
\* was in flight
login_parsed_dropsStale(i) ==
  /\ calls[i].kind = "login" /\ calls[i].pc = "json"
  /\ \E body \in ServerBodies(calls[i]) :
       LET s == IF i \in raced
                THEN Step(token, user, "done", "rejected", "Stale")
                ELSE login_body(calls[i].ok, body, token, user) IN
       /\ Apply(i, s, calls[i].ok)
       /\ last' = Observe("login_body", i, IF calls[i].ok THEN "ok" ELSE "notok", body, s)

\* login resumes after response.json()
login_parsed(i) ==
  /\ calls[i].kind = "login" /\ calls[i].pc = "json"
  /\ \E body \in ServerBodies(calls[i]) :
       LET s == login_body(calls[i].ok, body, token, user) IN
       /\ Apply(i, s, calls[i].ok)
       /\ last' = Observe("login_body", i, IF calls[i].ok THEN "ok" ELSE "notok", body, s)

\* register(name, email, password) is invoked: the request goes out
register ==
  /\ Cardinality(UserCalls) < MaxCalls
  /\ calls' = Append(calls, Call("register", Null))
  /\ last' = Observe("register", Len(calls) + 1, "none", NoBody,
                      Step(token, user, "fetch", "pending", NoError))
  /\ raced' = StillRaced
  /\ UNCHANGED <<token, user, context, initialized>>

register_fetched(i) ==
  /\ initialized /\ calls[i].kind = "register" /\ calls[i].pc = "fetch"
  /\ \E settle \in Settles :
       LET s == register_response(settle, token, user) IN
       /\ Apply(i, s, settle = "ok")
       /\ last' = Observe("register_response", i, settle, NoBody, s)

register_parsed(i) ==
  /\ calls[i].kind = "register" /\ calls[i].pc = "json"
  /\ \E body \in ServerBodies(calls[i]) :
       LET s == register_body(calls[i].ok, body, token, user) IN
       /\ Apply(i, s, calls[i].ok)
       /\ last' = Observe("register_body", i, IF calls[i].ok THEN "ok" ELSE "notok", body, s)

\* faulty variant: logout also notifies the backend (the option the comment
\* in logout mentions), which puts a request in flight
logout_notifiesBackend ==
  LET s == logout_effect(token, user) IN
  /\ token' = s.token
  /\ user' = s.user
  /\ context' = AuthProvider(s.user)
  /\ calls' = Append(calls, Call("logout", token))
  /\ last' = Observe("logout", 0, "none", NoBody, s)
  /\ raced' = {i \in Ids : calls[i].pc # "done"}
  /\ UNCHANGED initialized

\* faulty variant: logout aborts the requests in flight, rejecting their calls
logout_cancels ==
  LET s == logout_effect(token, user) IN
  /\ token' = s.token
  /\ user' = s.user
  /\ context' = AuthProvider(s.user)
  /\ calls' = [i \in Ids |-> IF calls[i].pc = "done" THEN calls[i]
                              ELSE [calls[i] EXCEPT !.pc = "done", !.result = "rejected"]]
  /\ last' = Observe("logout", 0, "none", NoBody, s)
  /\ raced' = {i \in Ids : calls[i].pc # "done"}
  /\ UNCHANGED initialized

\* logout(): synchronous, no request
logout ==
  LET s == logout_effect(token, user) IN
  /\ token' = s.token
  /\ user' = s.user
  /\ context' = AuthProvider(s.user)
  /\ last' = Observe("logout", 0, "none", NoBody, s)
  /\ raced' = {i \in Ids : calls[i].pc # "done"}
  /\ UNCHANGED <<initialized, calls>>

\* ---------------------------------------------------------------- useAuth
\* createContext<AuthContextType | null>(null): what useContext gives a
\* consumer with no AuthProvider above it (an optional value as a set)
AuthContext == {}

\* useContext(AuthContext) for a consumer inside or outside the provider
useContext(inside) == IF inside THEN {context} ELSE AuthContext

\* faulty variant: the guard is missing, the lookup is returned as it is
useAuth_result_noGuard(ctx) ==
  [result |-> "returned", error |-> NoError, value |-> ctx]

\* if (!context) throw new Error(...); return context
useAuth_result(ctx) ==
  IF ctx = {}
  THEN [result |-> "threw", error |-> "useAuth must be used within an AuthProvider",
        value |-> {}]
  ELSE [result |-> "returned", error |-> NoError, value |-> ctx]

\* a consumer component calls useAuth() while rendering
useAuth ==
  /\ \E inside \in BOOLEAN :
       LET r == useAuth_result(useContext(inside)) IN
       last' = [op |-> "useAuth", id |-> 0, token |-> token, user |-> user,
                net |-> IF inside THEN "inside" ELSE "outside", body |-> NoBody,
                result |-> r.result, error |-> r.error, value |-> r.value]
  /\ raced' = StillRaced
  /\ UNCHANGED <<token, user, context, initialized, calls>>

Next ==
  \/ useEffect
  \/ login
  \/ register
  \/ logout
  \/ \E i \in Ids : fetchUserFromToken_fetched(i)
  \/ \E i \in Ids : fetchUserFromToken_parsed(i)
  \/ \E i \in Ids : login_fetched(i)
  \/ \E i \in Ids : login_parsed(i)
  \/ \E i \in Ids : register_fetched(i)
  \/ \E i \in Ids : register_parsed(i)

Spec == Init /\ [][Next]_vars

\* Every request settles, and a response body is read to its end: the
\* network assumption under which calls complete.  React runs the mount
\* effect of a mounted provider.
CallSlots == 1 .. (MaxCalls + 1)
Settle(i) ==
  /\ i \in Ids
  /\ \/ fetchUserFromToken_fetched(i) \/ fetchUserFromToken_parsed(i)
     \/ login_fetched(i) \/ login_parsed(i)
     \/ register_fetched(i) \/ register_parsed(i)
FairSpec ==
  /\ Spec
  /\ WF_vars(useEffect)
  /\ \A i \in CallSlots : WF_vars(Settle(i))

\* the provider together with consumers that call useAuth
NextWithConsumers == Next \/ useAuth
SpecWithConsumers == Init /\ [][NextWithConsumers]_vars

TypeOK ==
  /\ token \in StoredTokens \cup {Null}
  /\ user \in Users \cup {Null, Undefined}
  /\ initialized \in BOOLEAN
  /\ \A i \in Ids : calls[i].pc \in {"fetch", "json", "done"}

\* A call of the claims' cases
InFlight(i) == calls[i].pc \in {"fetch", "json"}
ProperSuccess(b) == b.parse = "object" /\ b.token \in Tokens /\ b.user \in Users

\* ------------------------------------------------------------------ C1
\* C1: when login's success branch runs on an ok response with body
\* {token, user}, the call resolves and, in the state right after that one
\* step, the token store holds the returned token, user is the returned
\* principal and isAuthenticated is true (no state has one without the other).
C1_LoginSuccess ==
  (last.op = "login_body" /\ last.net = "ok" /\ ProperSuccess(last.body))
    => /\ last.result = "resolved"
       /\ calls[last.id].pc = "done"
       /\ token = last.body.token
       /\ user = last.body.user
       /\ context.user = last.body.user
       /\ context.isAuthenticated

\* a login that replaces another session's token and user
C1_Witness ==
  /\ last.op = "login_body" /\ last.net = "ok" /\ ProperSuccess(last.body)
  /\ last.token = "t1" /\ last.user = "u1"
  /\ token = "t2" /\ user = "u2" /\ context.isAuthenticated

\* ------------------------------------------------------------------ C2
\* C2: in the state right after logout(), whatever the state before it,
\* user is null, isAuthenticated is false and no token is stored.
C2_AfterLogout ==
  last.op = "logout"
    => user = Null /\ context.user = Null /\ ~context.isAuthenticated /\ token = Null

\* logout from an authenticated state with a request still in flight
C2_Witness ==
  /\ last.op = "logout" /\ last.user \in Users /\ last.token \in Tokens
  /\ \E i \in Ids : InFlight(i)
  /\ user = Null /\ token = Null

\* ------------------------------------------------------------------ C3
\* C3: in every reachable state, no token stored implies user is none.
C3_TokenUserConsistency == token = Null => user \notin Users

\* ------------------------------------------------------------------ C4
\* C4: a login that got a response that is not ok is rejected with the
\* server's message when there is one and "Login failed" otherwise, and
\* leaves the token store and user as they were.
C4_LoginFailure ==
  (last.op = "login_body" /\ last.net = "notok")
    => /\ last.result = "rejected"
       /\ last.error = (IF Truthy(last.body.message) THEN last.body.message
                        ELSE "Login failed")
       /\ token = last.token
       /\ user = last.user

\* ------------------------------------------------------------------ C5
\* C5: when the me request of the mount effect succeeds with {user}, user
\* becomes the returned principal and the restoration (the step after the
\* fetch and the step after response.json()) leaves the token store as is.
C5_RestoreSuccess ==
  /\ (last.op = "me_response" /\ last.net = "ok") => token = last.token
  /\ (last.op = "me_body" /\ last.body.parse = "object" /\ last.body.user \in Users)
       => /\ calls[last.id].tok \in StoredTokens
          /\ user = last.body.user
          /\ context.isAuthenticated
          /\ token = last.token

C5_Witness ==
  /\ last.op = "me_body" /\ last.body.user = "u1"
  /\ last.token = "t1" /\ last.user = Null
  /\ token = "t1" /\ user = "u1"

\* ------------------------------------------------------------------ C6
\* C6: when the me request fails (fetch rejects, status not ok, body that
\* does not parse or parses to null), restoration is complete and the
\* token store is empty and user is null.
MeFailed ==
  \/ last.op = "me_response" /\ last.net \in {"reject", "notok"}
  \/ last.op = "me_body" /\ last.body.parse \in {"error", "null"}

C6_FailClosed ==
  MeFailed => calls[last.id].pc = "done" /\ token = Null /\ user = Null
                /\ ~context.isAuthenticated

\* a stale restoration whose body fails to parse wipes the session a later
\* login had set up
C6_Witness ==
  /\ last.op = "me_body" /\ last.body.parse = "error"
  /\ last.token = "t2" /\ last.user = "u2" /\ calls[last.id].tok = "t1"
  /\ token = Null /\ user = Null

\* ------------------------------------------------------------------ C7
\* C7: a me request is only ever issued by the mount effect, and only when
\* it read a token; with an empty token store the effect issues nothing and
\* leaves user null, and as long as no login/register was called and no me
\* request exists, user is null.
MeCalls == {i \in Ids : calls[i].kind = "me"}

C7_NoTokenNoRequest ==
  [][/\ (MeCalls' # MeCalls) => (~initialized /\ initialized' /\ Truthy(token))
     /\ (~initialized /\ initialized' /\ token = Null)
          => (calls' = calls /\ user' = Null /\ token' = Null)
     /\ (MeCalls' = {} /\ UserCalls' = {}) => user' = Null]_vars

C7_Witness ==
  /\ initialized /\ last.op = "useEffect" /\ last.token = Null
  /\ MeCalls = {} /\ user = Null

\* ------------------------------------------------------------------ C8
\* C8: in every reachable state the provided isAuthenticated is true
\* exactly when the user cell holds a principal, and the provided user is
\* the user cell.
C8_IsAuthenticatedDerived ==
  /\ context.user = user
  /\ context.isAuthenticated <=> (user \in Users)

\* authenticated with no token stored: the flag follows user, not the token
C8_Witness == context.isAuthenticated /\ user \in Users /\ token = Null

\* ------------------------------------------------------------------ C9
\* C9: register does to (token store, user) what login does for the same
\* response: an ok {token, user} stores the token and sets user; a response
\* that is not ok is rejected with the server's message or "Registration
\* failed" and leaves both unchanged.
C9_RegisterAsLogin ==
  /\ last.op = "register_body" =>
       LET s == login_body(last.net = "ok", last.body, last.token, last.user) IN
       token = s.token /\ user = s.user /\ last.result = s.result
  /\ (last.op = "register_body" /\ last.net = "ok" /\ ProperSuccess(last.body))
       => token = last.body.token /\ user = last.body.user
  /\ (last.op = "register_body" /\ last.net = "notok")
       => /\ last.result = "rejected"
          /\ last.error = (IF Truthy(last.body.message) THEN last.body.message
                           ELSE "Registration failed")
          /\ token = last.token /\ user = last.user

\* ----------------------------------------------------------------- C10
\* C10: logout is always possible, completes in its one step, and leaves
\* the calls alone: none is added (no request) and none in flight changes.
C10_LogoutNoRequest ==
  /\ [](ENABLED logout)
  /\ [][last'.op = "logout" => (calls' = calls /\ last'.result = "resolved")]_vars

C10_Witness ==
  /\ last.op = "logout"
  /\ \E i, j \in Ids : calls[i].kind = "me" /\ InFlight(i)
                        /\ calls[j].kind = "login" /\ InFlight(j)

\* ----------------------------------------------------------------- C11
\* C11: restoration never ends in an error: the promise of
\* fetchUserFromToken is never rejected and no step of it raises an error,
\* whatever the me request does; a failing me request shows only as token
\* cleared and user null.
C11_RestoreNeverThrows ==
  /\ \A i \in MeCalls : calls[i].result \in {"pending", "resolved"}
  /\ last.op \in {"me_response", "me_body"}
       => last.error = NoError /\ last.result \in {"pending", "resolved"}
  /\ MeFailed => last.result = "resolved" /\ token = Null /\ user = Null

\* a body that parses to null: the TypeError of data.user is swallowed
C11_Witness ==
  /\ last.op = "me_body" /\ last.body.parse = "null"
  /\ calls[last.id].result = "resolved" /\ last.error = NoError
  /\ last.token \in Tokens /\ token = Null

\* ----------------------------------------------------------------- C12
\* C12: useAuth() of a consumer with no provider above it throws the
\* configuration error and returns nothing; inside the provider it returns
\* the provided value {user, isAuthenticated, ...} and never throws.
C12_UseAuthGuard ==
  last.op = "useAuth" =>
    /\ last.net = "outside"
         => /\ last.result = "threw"
            /\ last.error = "useAuth must be used within an AuthProvider"
            /\ last.value = {}
    /\ last.net = "inside"
         => /\ last.result = "returned"
            /\ last.error = NoError
            /\ last.value = {context}
            /\ context = [user |-> user, isAuthenticated |-> user \in Users]

\* a consumer outside the provider fails even while a session exists
C12_Witness ==
  /\ last.op = "useAuth" /\ last.net = "outside" /\ last.result = "threw"
  /\ user \in Users /\ token \in Tokens

\* ----------------------------------------------------------------- C13
\* C13: when logout() ran while a login was in flight and that login then
\* succeeds, the state after it has the login's token and user; when a
\* login has resolved and logout() runs after it, the state after logout
\* has no token and no user.
C13_LastResolverWins ==
  /\ (/\ last.op = "login_body" /\ last.net = "ok" /\ ProperSuccess(last.body)
      /\ last.id \in raced)
       => /\ last.result = "resolved"
          /\ token = last.body.token
          /\ user = last.body.user
          /\ context.isAuthenticated
  /\ (/\ last.op = "logout"
      /\ \E i \in Ids : calls[i].kind = "login" /\ calls[i].result = "resolved")
       => token = Null /\ user = Null /\ ~context.isAuthenticated

\* the login's session reappears over the logged-out state
C13_Witness ==
  /\ last.op = "login_body" /\ last.net = "ok" /\ ProperSuccess(last.body)
  /\ last.id \in raced
  /\ last.token = Null /\ last.user = Null
  /\ token = "t1" /\ user = "u1"

\* ----------------------------------------------------------------- C14
\* C14: the me request of the mount effect settling after a login/register
\* has succeeded: if it fails, the token is removed and user is null; if it
\* succeeds, user becomes the principal of the token it was sent with and
\* the stored token stays what it was, with no check that it is that token.
LoginSucceeded == \E j \in UserCalls : calls[j].result = "resolved"

C14_StaleRestoration ==
  /\ (MeFailed /\ LoginSucceeded) => token = Null /\ user = Null
  /\ (/\ last.op = "me_body" /\ last.body.parse = "object" /\ last.body.user \in Users
      /\ LoginSucceeded)
       => /\ user = Owner(calls[last.id].tok)
          /\ user = last.body.user
          /\ token = last.token

\* the old token's principal beside the token the login stored
C14_Witness ==
  /\ last.op = "me_body" /\ calls[last.id].tok = "t1" /\ LoginSucceeded
  /\ last.token = "t2" /\ last.user = "u2"
  /\ token = "t2" /\ user = "u1"

\* ----------------------------------------------------------------- C15
\* C15: a login or register whose response is not ok and whose body does
\* not parse is rejected with the parse failure itself, not with "Login
\* failed" / "Registration failed", and leaves token store and user as
\* they were.
C15_ParseFailurePropagates ==
  (/\ last.op \in {"login_body", "register_body"}
   /\ last.net = "notok" /\ last.body.parse = "error")
    => /\ last.result = "rejected"
       /\ calls[last.id].result = "rejected"
       /\ last.error = "SyntaxError"
       /\ last.error \notin {"Login failed", "Registration failed"}
       /\ token = last.token
       /\ user = last.user

C15_Witness ==
  /\ last.op = "login_body" /\ last.net = "notok" /\ last.body.parse = "error"
  /\ last.error = "SyntaxError"
  /\ last.token = "t1" /\ last.user = "u1" /\ token = "t1" /\ user = "u1"

\* ----------------------------------------------------------------- C16
\* C16: one request per invocation and no retry: a call is added only by
\* the mount effect, login or register, one at a time, with its fetch
\* outstanding; a fetch that settled, however it settled, is never awaited
\* again; a completed call never changes; the me request is issued only by
\* the mount effect, at most once.
ResponseOps == {"me_response", "login_response", "register_response"}
BodyOps == {"me_body", "login_body", "register_body"}

C16_NoRetries ==
  [][/\ \A i \in Ids :
          /\ i \in Ids'
          /\ calls'[i].kind = calls[i].kind /\ calls'[i].tok = calls[i].tok
          /\ calls[i].pc # "fetch" => calls'[i].pc # "fetch"
          /\ calls[i].pc = "done" => calls'[i] = calls[i]
     /\ last'.op \in ResponseOps
          => calls[last'.id].pc = "fetch" /\ calls'[last'.id].pc # "fetch"
     /\ last'.op \in ResponseOps \cup BodyOps \cup {"logout"} => Len(calls') = Len(calls)
     /\ last'.op \in {"login", "register"}
          => /\ Len(calls') = Len(calls) + 1
             /\ calls'[Len(calls')].kind = last'.op
             /\ calls'[Len(calls')].pc = "fetch"
     /\ Len(calls') <= Len(calls) + 1
     /\ MeCalls' # MeCalls => (last'.op = "useEffect" /\ ~initialized)
     /\ Cardinality(MeCalls') <= 1]_vars

\* every request failed and nothing is outstanding or was sent twice
C16_Witness ==
  /\ last.op = "login_response" /\ last.net = "reject"
  /\ Cardinality(MeCalls) = 1 /\ Cardinality(UserCalls) = 1
  /\ \A i \in Ids : calls[i].pc = "done" /\ calls[i].result # "pending" /\ ~calls[i].ok

\* ----------------------------------------------------------------- C17
\* C17: a call completes exactly by its own request settling: if every
\* request settles, every call in flight eventually completes; a call's
\* position and promise change only in the steps that handle its response,
\* and token and user change only in such a step or in logout (there is no
\* timeout and no cancellation).
C17_CompletesIffSettles ==
  /\ \A i \in CallSlots :
       (i \in Ids /\ InFlight(i))
         ~> (i \in Ids /\ calls[i].pc = "done" /\ calls[i].result # "pending")
  /\ [][/\ \A i \in Ids :
             (calls'[i].pc # calls[i].pc \/ calls'[i].result # calls[i].result)
               => (last'.id = i /\ last'.op \in ResponseOps \cup BodyOps)
        /\ (token' # token \/ user' # user)
               => last'.op \in ResponseOps \cup BodyOps \cup {"logout"}]_vars

\* all calls of a lifetime have completed, one way or the other
C17_Witness ==
  /\ MeCalls # {} /\ Cardinality(UserCalls) >= 2
  /\ \A i \in Ids : calls[i].pc = "done"
  /\ \E i, j \in Ids : calls[i].result = "resolved" /\ calls[j].result = "rejected"

\* ----------------------------------------------------------------- C18
\* C18: whenever a token is stored and user is present, user is the
\* principal of that token.
C18_TokenPrincipalCorrespondence ==
  (token \in Tokens /\ user \in Users) => user = Owner(token)

====
